---------------------------- MODULE Spec2Model ----------------------------
(***************************************************************************)
(* Model of the melody player: the GPIO interrupt dispatch layer with its  *)
(* software debounce (gpio_irq_manager.c), the button abstraction          *)
(* (ButtonPi.c), the joystick range mapping (JoystickPi.c) and the         *)
(* playback state machine driven by the polling loop (GENIUS.c).           *)
(* Times are in microseconds, as absolute_time_t counts them.              *)
(***************************************************************************)
EXTENDS Integers, Sequences, FiniteSets, TLC

(***************************************************************************)
(* Program constants.                                                      *)
(***************************************************************************)
MAX_GPIO_PINS == 30
DEBOUNCE_DELAY_MS == 200
BUTTON_A_PIN == 5
BUTTON_B_PIN == 6
UPDATE_MS == 100
LOOP_SLEEP_MS == 10
ATTACH_PIN_LIMIT == 30
ADC_FULL_SCALE == 4095

(***************************************************************************)
(* Bounds of the model.                                                    *)
(***************************************************************************)
\* number of clock advances in the dispatch-layer specification
MaxTicks == 3
\* the clock value, in milliseconds, past which the polling loop starts no
\* further sleep
MaxTimeMs == 900
\* button edges arrive at multiples of this many milliseconds
PressGridMs == 100

NULL == "NULL"
Callbacks == {"btn_a_callback", "btn_b_callback"}
EventMasks == {"GPIO_IRQ_EDGE_FALL", "GPIO_IRQ_EDGE_RISE"}
\* the first pin number past the tables; index FirstBadPin of a table stands
\* for the memory that follows its MAX_GPIO_PINS slots
FirstBadPin == MAX_GPIO_PINS
TableIdx == 0 .. FirstBadPin
PinInputs == {BUTTON_A_PIN, BUTTON_B_PIN, FirstBadPin}

VARIABLES
    now,                  \* the monotonic clock, microseconds since boot
    callbacks,            \* callbacks[MAX_GPIO_PINS]
    last_interrupt_time,  \* last_interrupt_time[MAX_GPIO_PINS]
    irq_enabled,          \* per pin, the edge events whose interrupt is enabled
    irq_vector,           \* the installed global GPIO vector, and the bank enable
    buttons,              \* the volatile struct buttons of GENIUS.c
    player,               \* the PlayerState player of GENIUS.c
    status_last,          \* the static deadline "last" of show_status
    pwm,                  \* the buzzer: frequency and duty level commanded
    pc,                   \* where the polling loop of main stands
    wake,                 \* end of the sleep_ms the loop is blocked in
    emit,                 \* the locals of update_sound for the note being
                          \* emitted, kept as the record of the last emission
    nemit,                \* history: notes (tones and rests) emitted so far
    cyc,                  \* history: what handle_input did in this cycle
    latch,                \* history: presses accepted while a note sounded,
                          \* and presses accepted whose transition is owed
    horizon,              \* the clock value at which the model stops the loop
    last_call,            \* history: time of the last invocation for each pin
    last_op,              \* history: the dispatch-layer operation just performed
    owner,                \* history: per pin, the callback of the last register
                          \* call made for it, NULL since a remove call
    nticks,               \* history: clock advances taken (dispatch-layer spec)
    fq,                   \* inputs and result of one frequency computation
    mv                    \* inputs and result of one joystickPi_map_value call

irqVars == <<callbacks, last_interrupt_time, irq_enabled, irq_vector>>
histVars == <<last_call, last_op, owner>>
loopVars == <<player, status_last, pwm, pc, wake, emit, nemit, cyc, latch, horizon>>
pureVars == <<fq, mv>>
vars == <<now, callbacks, last_interrupt_time, irq_enabled, irq_vector,
          buttons, player, status_last, pwm, pc, wake, emit, nemit, cyc,
          latch, horizon, last_call, last_op, owner, nticks, fq, mv>>

(***************************************************************************)
(* GENIUS.c: the two button callbacks, run in interrupt context.           *)
(***************************************************************************)
btn_a_callback(b) == [b EXCEPT !.a_pressed = TRUE]
btn_b_callback(b) == [b EXCEPT !.b_pressed = TRUE]

\* the call through the stored function pointer, callbacks[gpio]()
Invoke(cb, b) ==
    IF cb = "btn_a_callback" THEN btn_a_callback(b) ELSE btn_b_callback(b)

(***************************************************************************)
(* gpio_irq_manager.c                                                      *)
(***************************************************************************)
absolute_time_diff_us(from, to) == to - from

\* the range check shared by the handler, register and remove
ValidPinOffByOne(gpio) == gpio <= MAX_GPIO_PINS
ValidPin(gpio) == gpio < MAX_GPIO_PINS

\* the debounce test of the handler
DebounceNever(last, t) == TRUE
DebounceInclusive(last, t) ==
    absolute_time_diff_us(last, t) >= DEBOUNCE_DELAY_MS * 1000
DebouncePassed(last, t) ==
    absolute_time_diff_us(last, t) > DEBOUNCE_DELAY_MS * 1000

\* gpio_set_irq_enabled of the SDK, on the per-pin event set
gpio_set_irq_enabled(en, gpio, mask, on) ==
    [en EXCEPT ![gpio] = IF on THEN @ \cup {mask} ELSE @ \ {mask}]

OpRecord(op, gpio, slot, elapsed, invoked, since, before, touched, changed) ==
    [op |-> op, gpio |-> gpio, slot |-> slot, elapsed |-> elapsed,
     invoked |-> invoked, since_prev |-> since, lit_before |-> before,
     touched |-> touched, changed |-> changed]

SinceLastCall(gpio) ==
    IF last_call[gpio] = -1 THEN -1 ELSE now - last_call[gpio]

\* as if the debounce timestamp were one variable shared by the pins
HandlerSharedTimestamp(gpio, events) ==
    IF ValidPin(gpio) /\ callbacks[gpio] # NULL
    THEN IF DebouncePassed(last_interrupt_time[gpio], now)
         THEN /\ last_interrupt_time' = [p \in TableIdx |-> now]
              /\ buttons' = Invoke(callbacks[gpio], buttons)
              /\ last_call' = [last_call EXCEPT ![gpio] = now]
              /\ last_op' = OpRecord("dispatch", gpio, callbacks[gpio],
                     absolute_time_diff_us(last_interrupt_time[gpio], now),
                     1, SinceLastCall(gpio), last_interrupt_time[gpio],
                     TRUE, TRUE)
              /\ UNCHANGED <<callbacks, irq_enabled, irq_vector, owner>>
         ELSE /\ last_op' = OpRecord("dispatch", gpio, callbacks[gpio],
                     absolute_time_diff_us(last_interrupt_time[gpio], now),
                     0, SinceLastCall(gpio), last_interrupt_time[gpio],
                     TRUE, FALSE)
              /\ UNCHANGED <<irqVars, buttons, last_call, owner>>
    ELSE /\ last_op' = OpRecord("dispatch", gpio, NULL, -1, 0, -1, -1,
                                ValidPin(gpio), FALSE)
         /\ UNCHANGED <<irqVars, buttons, last_call, owner>>

gpio_irq_handler(gpio, events) ==
    IF ValidPin(gpio) /\ callbacks[gpio] # NULL
    THEN IF DebouncePassed(last_interrupt_time[gpio], now)
         THEN /\ last_interrupt_time' =
                     [last_interrupt_time EXCEPT ![gpio] = now]
              /\ buttons' = Invoke(callbacks[gpio], buttons)
              /\ last_call' = [last_call EXCEPT ![gpio] = now]
              /\ last_op' = OpRecord("dispatch", gpio, callbacks[gpio],
                     absolute_time_diff_us(last_interrupt_time[gpio], now),
                     1, SinceLastCall(gpio), last_interrupt_time[gpio],
                     TRUE, TRUE)
              /\ UNCHANGED <<callbacks, irq_enabled, irq_vector, owner>>
         ELSE /\ last_op' = OpRecord("dispatch", gpio, callbacks[gpio],
                     absolute_time_diff_us(last_interrupt_time[gpio], now),
                     0, SinceLastCall(gpio), last_interrupt_time[gpio],
                     TRUE, FALSE)
              /\ UNCHANGED <<irqVars, buttons, last_call, owner>>
    ELSE /\ last_op' = OpRecord("dispatch", gpio, NULL, -1, 0, -1, -1,
                                ValidPin(gpio), FALSE)
         /\ UNCHANGED <<irqVars, buttons, last_call, owner>>

RegisterKeepsFirst(gpio, callback, event_mask) ==
    IF ValidPin(gpio)
    THEN /\ callbacks' = [callbacks EXCEPT ![gpio] =
                             IF @ = NULL THEN callback ELSE @]
         /\ irq_enabled' = gpio_set_irq_enabled(irq_enabled, gpio, event_mask, TRUE)
         /\ last_op' = OpRecord("register", gpio, callback, -1, 0, -1,
                           last_interrupt_time[gpio], TRUE,
                           <<callbacks', irq_enabled'>> # <<callbacks, irq_enabled>>)
                        @@ [slot_before |-> callbacks[gpio]]
    ELSE /\ last_op' = OpRecord("register", gpio, NULL, -1, 0, -1, -1, FALSE, FALSE)
         /\ UNCHANGED <<callbacks, irq_enabled>>

register_gpio_callback(gpio, callback, event_mask) ==
    IF ValidPin(gpio)
    THEN /\ callbacks' = [callbacks EXCEPT ![gpio] = callback]
         /\ irq_enabled' = gpio_set_irq_enabled(irq_enabled, gpio, event_mask, TRUE)
         /\ last_op' = OpRecord("register", gpio, callback, -1, 0, -1,
                           last_interrupt_time[gpio], TRUE,
                           <<callbacks', irq_enabled'>> # <<callbacks, irq_enabled>>)
                        @@ [slot_before |-> callbacks[gpio]]
    ELSE /\ last_op' = OpRecord("register", gpio, NULL, -1, 0, -1, -1, FALSE, FALSE)
         /\ UNCHANGED <<callbacks, irq_enabled>>

RemoveResetsTimestamp(gpio, event_mask) ==
    /\ IF ValidPin(gpio)
       THEN /\ callbacks' = [callbacks EXCEPT ![gpio] = NULL]
            /\ irq_enabled' = gpio_set_irq_enabled(irq_enabled, gpio, event_mask, FALSE)
            /\ last_interrupt_time' = [last_interrupt_time EXCEPT ![gpio] = 0]
            /\ last_op' = OpRecord("remove", gpio, NULL, -1, 0, -1,
                              last_interrupt_time[gpio], TRUE,
                              <<callbacks', irq_enabled'>> # <<callbacks, irq_enabled>>)
       ELSE /\ last_op' = OpRecord("remove", gpio, NULL, -1, 0, -1, -1, FALSE, FALSE)
            /\ UNCHANGED <<callbacks, irq_enabled, last_interrupt_time>>
    /\ UNCHANGED irq_vector

remove_gpio_callback(gpio, event_mask) ==
    /\ IF ValidPin(gpio)
       THEN /\ callbacks' = [callbacks EXCEPT ![gpio] = NULL]
            /\ irq_enabled' = gpio_set_irq_enabled(irq_enabled, gpio, event_mask, FALSE)
            /\ last_op' = OpRecord("remove", gpio, NULL, -1, 0, -1,
                              last_interrupt_time[gpio], TRUE,
                              <<callbacks', irq_enabled'>> # <<callbacks, irq_enabled>>)
       ELSE /\ last_op' = OpRecord("remove", gpio, NULL, -1, 0, -1, -1, FALSE, FALSE)
            /\ UNCHANGED <<callbacks, irq_enabled>>
    /\ UNCHANGED <<last_interrupt_time, irq_vector>>

\* installs the handler as the global vector and enables the GPIO bank
gpio_irq_manager_init == [handler |-> "gpio_irq_handler", bank |-> TRUE]

(***************************************************************************)
(* ButtonPi.c                                                              *)
(***************************************************************************)
AttachablePin(pin) == pin < ATTACH_PIN_LIMIT

ButtonPi_attach_callback(pin, callback) ==
    /\ irq_vector' = gpio_irq_manager_init
    /\ IF AttachablePin(pin)
       THEN register_gpio_callback(pin, callback, "GPIO_IRQ_EDGE_FALL")
       ELSE /\ last_op' = OpRecord("attach", pin, NULL, -1, 0, -1, -1, FALSE, FALSE)
            /\ UNCHANGED <<callbacks, irq_enabled>>
    /\ UNCHANGED last_interrupt_time

(***************************************************************************)
(* Single-precision arithmetic of update_sound.  A float is held as an     *)
(* integer count of 2^-24 (the multiplier lies in [0.5, 1.5]); every       *)
(* operation rounds to a 24-bit significand, to nearest, ties to even, as  *)
(* IEEE 754 binary32 does.  Products are kept in two 12-bit-split limbs so *)
(* that no intermediate value leaves the 32-bit integers.                  *)
(***************************************************************************)
\* the recursions are functions, whose argument is a value when the body
\* is evaluated
Pow2Of[n \in Nat] == IF n = 0 THEN 1 ELSE 2 * Pow2Of[n - 1]
Pow2(n) == Pow2Of[n]

BitLenOf[n \in Nat] == IF n = 0 THEN 0 ELSE 1 + BitLenOf[n \div 2]
BitLen(n) == BitLenOf[n]

\* n / 2^k rounded to the nearest integer, ties to even
RoundShift(n, k) ==
    IF k = 0 THEN n
    ELSE LET q == n \div Pow2(k)
             r == n % Pow2(k)
             half == Pow2(k - 1)
         IN  IF r > half \/ (r = half /\ q % 2 = 1) THEN q + 1 ELSE q

\* long division x / ADC_FULL_SCALE, one quotient bit per step, until the
\* quotient holds 24 significant bits: <<quotient, remainder, bits>>
DivBitsOf[q \in Nat, r \in Nat, j \in Nat] ==
    IF q >= Pow2(23) THEN <<q, r, j>>
    ELSE IF 2 * r >= ADC_FULL_SCALE
         THEN DivBitsOf[2 * q + 1, 2 * r - ADC_FULL_SCALE, j + 1]
         ELSE DivBitsOf[2 * q, 2 * r, j + 1]
DivBits(q, r, j) == DivBitsOf[q, r, j]

\* js.x / 4095.0f for 0 < x < 4095: <<significand m, shift j>>, value m / 2^j
F32DivFullScale(x) ==
    LET d == DivBits(0, x, 0)
    IN  <<IF 2 * d[2] > ADC_FULL_SCALE THEN d[1] + 1 ELSE d[1], d[3]>>

\* 0.5f + (js.x / 4095.0f), in units of 2^-24
FreqMultOf[x \in Nat] ==
    IF x = 0 THEN Pow2(23)
    ELSE IF x = ADC_FULL_SCALE THEN 3 * Pow2(23)
    ELSE LET t == F32DivFullScale(x)
             k == t[2] - 24
         IN  IF k >= 1
             THEN Pow2(23) + RoundShift(t[1], k)
             ELSE 2 * RoundShift(Pow2(23) + t[1], 1)
FreqMult(x) == FreqMultOf[x]

\* the float product original * freq_mult, rounded to 24 significant bits
\* and converted to int (truncation toward zero): <<A, B>> is the exact
\* product A * 2^12 + B in units of 2^-24
ProductLimbs(f, fm) ==
    LET H == fm \div 4096
        L == fm % 4096
    IN  <<f * H + ((f * L) \div 4096), (f * L) % 4096>>

RoundedProductOf[f \in Nat, fm \in Nat] ==
    LET P == ProductLimbs(f, fm)
        A == P[1]
        B == P[2]
        d == BitLen(A) - 12
    IN  IF d <= 0 THEN A
        ELSE IF d <= 12
        THEN LET q == B \div Pow2(d)
                 r == B % Pow2(d)
                 half == Pow2(d - 1)
                 odd == IF d = 12 THEN A % 2 = 1 ELSE q % 2 = 1
                 up == IF r > half \/ (r = half /\ odd) THEN 1 ELSE 0
             IN  IF (q + up) * Pow2(d) >= 4096 THEN A + 1 ELSE A
        ELSE LET e == d - 12
                 q == A \div Pow2(e)
                 r == A % Pow2(e)
                 half == Pow2(e - 1)
                 up == IF r > half \/ (r = half /\ (B > 0 \/ q % 2 = 1))
                       THEN 1 ELSE 0
             IN  (q + up) * Pow2(e)
RoundedProduct(f, fm) == RoundedProductOf[f, fm]

\* (int)(original * player.freq_mult)
EffFreqRounded(f, fm) == (RoundedProduct(f, fm) + 2048) \div 4096
EffFreq(f, fm) == RoundedProduct(f, fm) \div 4096


(***************************************************************************)
(* GENIUS.c: the melody catalog.  The note tables come from inc/melody.h;  *)
(* the first one is the three-note melody the specification works through. *)
(***************************************************************************)
AsaBrancaMelody == <<440, 0, 880>>
AsaBrancaDurations == <<200, 100, 300>>
ForEliseMelody == <<659, 622>>
ForEliseDurations == <<100, 100>>
CanoninDMelody == <<294>>
CanoninDurations == <<200>>

melodies ==
    << [melody |-> AsaBrancaMelody, durations |-> AsaBrancaDurations,
        length |-> Len(AsaBrancaMelody), name |-> "Asa Branca"],
       [melody |-> ForEliseMelody, durations |-> ForEliseDurations,
        length |-> Len(ForEliseMelody), name |-> "Fur Elise"],
       [melody |-> CanoninDMelody, durations |-> CanoninDurations,
        length |-> Len(CanoninDMelody), name |-> "Canon in D"] >>

\* sizeof(melodies)/sizeof(Melody)
CatalogLength == Len(melodies)

\* samples the ADC may return for the joystick X axis
JoyX == {2047, 2048, ADC_FULL_SCALE}

NoEmission ==
    [index |-> 0, note |-> 0, original |-> 0, duration |-> 0, freq |-> 0,
     x |-> 0, tone |-> FALSE, start |-> 0, ended |-> FALSE, ended_at |-> 0,
     first_after |-> "no"]

\* what handle_input saw when the cycle began (b0: button B's flag when the
\* call tested button A's), what it has done since, and the joystick sample
\* update_sound has read in the cycle (-1: none)
CycleStart(index, note, playing) ==
    [index0 |-> index, note0 |-> note, play0 |-> playing, b0 |-> FALSE,
     took_a |-> FALSE, took_b |-> FALSE, play_b |-> FALSE, x |-> -1]

(***************************************************************************)
(* The dispatch layer as a library: any caller, any pin.                   *)
(***************************************************************************)
BootTables ==
    /\ callbacks = [p \in TableIdx |-> NULL]
    /\ last_interrupt_time = [p \in TableIdx |-> 0]
    /\ irq_enabled = [p \in TableIdx |-> {}]
    /\ irq_vector = [handler |-> NULL, bank |-> FALSE]
    /\ last_call = [p \in TableIdx |-> -1]
    /\ owner = [p \in TableIdx |-> NULL]
    /\ last_op = [op |-> "boot", gpio |-> 0, slot |-> NULL, elapsed |-> -1,
                  invoked |-> 0, since_prev |-> -1, lit_before |-> -1,
                  touched |-> FALSE, changed |-> FALSE]

\* PlayerState player = {0}, buttons = {0}, and the loop about to start
BootPlayer ==
    /\ buttons = [index |-> 0, a_pressed |-> FALSE, b_pressed |-> FALSE]
    /\ player = [current_note |-> 0, is_playing |-> FALSE, next_note_time |-> 0,
                 freq_mult |-> 0, current_freq |-> 0]
    /\ status_last = 0
    /\ pwm = [freq |-> 0, level |-> "zero"]
    /\ pc = "hi_a"
    /\ wake = 0
    /\ emit = NoEmission
    /\ nemit = 0
    /\ cyc = CycleStart(0, 0, FALSE)
    /\ latch = [a_in_note |-> FALSE, at_nemit |-> 0, fresh |-> "no",
                b_in_note |-> FALSE, a_owed |-> FALSE, b_owed |-> FALSE,
                a_acc |-> 0, a_app |-> 0, a_since |-> 0,
                b_acc |-> 0, b_app |-> 0, b_since |-> 0]

IdlePure ==
    /\ fq = [f |-> 0, x |-> 0, fm |-> 0, out |-> 0, done |-> FALSE]
    /\ mv = [value |-> 0, min_input |-> 0, max_input |-> 0, min_output |-> 0,
             max_output |-> 0, out |-> 0, done |-> FALSE, overflow |-> FALSE]

InitIrq ==
    /\ now = 0
    /\ nticks = 0
    /\ horizon = 0
    /\ BootTables
    /\ BootPlayer
    /\ IdlePure

\* time passes between two calls; last_op describes the operation performed
\* at the current instant, so a clock advance replaces it
TickSteps == {1, DEBOUNCE_DELAY_MS * 1000}

Tick ==
    /\ nticks < MaxTicks
    /\ \E d \in TickSteps : now' = now + d
    /\ nticks' = nticks + 1
    /\ last_op' = OpRecord("tick", 0, NULL, -1, 0, -1, -1, FALSE, FALSE)
    /\ UNCHANGED <<irqVars, buttons, last_call, owner, loopVars, pureVars>>

Dispatch ==
    /\ \E gpio \in PinInputs, ev \in EventMasks : gpio_irq_handler(gpio, ev)
    /\ UNCHANGED <<now, nticks, loopVars, pureVars>>

\* the callers' view of the slots: what the last register or remove call
\* made for a pin of the table asked for
Registered(gpio, callback) ==
    IF gpio < MAX_GPIO_PINS THEN [owner EXCEPT ![gpio] = callback] ELSE owner

Register ==
    /\ \E gpio \in PinInputs, cb \in Callbacks, m \in EventMasks :
          /\ register_gpio_callback(gpio, cb, m)
          /\ owner' = Registered(gpio, cb)
    /\ UNCHANGED <<now, nticks, last_interrupt_time, irq_vector, buttons,
                   last_call, loopVars, pureVars>>

Remove ==
    /\ \E gpio \in PinInputs, m \in EventMasks :
          /\ remove_gpio_callback(gpio, m)
          /\ owner' = Registered(gpio, NULL)
    /\ UNCHANGED <<now, nticks, buttons, last_call, loopVars, pureVars>>

Attach ==
    /\ \E pin \in PinInputs, cb \in Callbacks :
          /\ ButtonPi_attach_callback(pin, cb)
          /\ owner' = Registered(pin, cb)
    /\ UNCHANGED <<now, nticks, buttons, last_call, loopVars, pureVars>>

NextIrq == Tick \/ Dispatch \/ Register \/ Remove \/ Attach

SpecIrq == InitIrq /\ [][NextIrq]_vars

\* the same layer at one instant after the boot-time debounce window, where
\* only the slots change: callers register, remove and attach, edges arrive
FirstAcceptInstant == DEBOUNCE_DELAY_MS * 1000 + 1

InitSlots ==
    /\ now = FirstAcceptInstant
    /\ nticks = 0
    /\ horizon = 0
    /\ BootTables
    /\ BootPlayer
    /\ IdlePure

NextSlots == Dispatch \/ Register \/ Remove \/ Attach

SpecSlots == InitSlots /\ [][NextSlots]_vars

(***************************************************************************)
(* GENIUS.c: the polling loop of main.  handle_input is taken in the steps *)
(* between which an interrupt can be served: the test of a flag (with the  *)
(* statements up to the write that clears it) and the clearing write (with *)
(* the statements that follow it).  The loop's own statements take no      *)
(* time; the clock moves while the loop is blocked in a sleep_ms.          *)
(***************************************************************************)
time_reached(t) == now >= t
make_timeout_time_ms(ms) == now + ms * 1000

\* buttons.index = (buttons.index + 1) % (sizeof(melodies)/sizeof(Melody))
NextIndexNoWrap(i) == i + 1
NextIndex(i) == (i + 1) % CatalogLength

\* what the button A branch does to the player
ButtonAEffectResetsNote(p) == [p EXCEPT !.is_playing = FALSE, !.current_note = 0]
ButtonAEffectKeepsPlaying(p) == p
ButtonAEffect(p) == [p EXCEPT !.is_playing = FALSE]

\* what the button B branch does to the player
ButtonBEffectKeepsNote(p) == [p EXCEPT !.is_playing = ~@]
ButtonBEffectResetsDeadline(p) ==
    [p EXCEPT !.is_playing = ~@, !.current_note = 0, !.next_note_time = 0]
ButtonBEffect(p) == [p EXCEPT !.is_playing = ~@, !.current_note = 0]

\* if(buttons.a_pressed) { buttons.index = ...; printf(...);
HandleInputTestA ==
    /\ pc = "hi_a"
    /\ IF buttons.a_pressed
       THEN /\ buttons' = [buttons EXCEPT !.index = NextIndex(@)]
            /\ latch' = [latch EXCEPT !.a_owed = FALSE, !.a_app = @ + 1]
            /\ pc' = "hi_a_clear"
       ELSE /\ pc' = "hi_b"
            /\ UNCHANGED <<buttons, latch>>
    /\ cyc' = [cyc EXCEPT !.b0 = buttons.b_pressed]
    /\ UNCHANGED <<now, irqVars, histVars, nticks, pureVars, player,
                   status_last, pwm, wake, emit, nemit, horizon>>

\* as if the button B test were the else branch of the button A test
HandleInputClearAReturns ==
    /\ pc = "hi_a_clear"
    /\ buttons' = [buttons EXCEPT !.a_pressed = FALSE]
    /\ player' = ButtonAEffect(player)
    /\ cyc' = [cyc EXCEPT !.took_a = TRUE]
    /\ latch' = [latch EXCEPT !.a_in_note = FALSE, !.a_since = 0,
                    !.fresh = IF latch.a_in_note THEN "select_in_note"
                              ELSE "select"]
    /\ pc' = "us"
    /\ UNCHANGED <<now, irqVars, histVars, nticks, pureVars, status_last,
                   pwm, wake, emit, nemit, horizon>>

\* as if the button A branch left its flag set
HandleInputClearAKeepsFlag ==
    /\ pc = "hi_a_clear"
    /\ buttons' = buttons
    /\ player' = ButtonAEffect(player)
    /\ cyc' = [cyc EXCEPT !.took_a = TRUE]
    /\ latch' = [latch EXCEPT !.a_in_note = FALSE, !.a_since = 0,
                    !.fresh = IF latch.a_in_note THEN "select_in_note"
                              ELSE "select"]
    /\ pc' = "hi_b"
    /\ UNCHANGED <<now, irqVars, histVars, nticks, pureVars, status_last,
                   pwm, wake, emit, nemit, horizon>>

\* buttons.a_pressed = false; player.is_playing = false; }
HandleInputClearA ==
    /\ pc = "hi_a_clear"
    /\ buttons' = [buttons EXCEPT !.a_pressed = FALSE]
    /\ player' = ButtonAEffect(player)
    /\ cyc' = [cyc EXCEPT !.took_a = TRUE]
    /\ latch' = [latch EXCEPT !.a_in_note = FALSE, !.a_since = 0,
                    !.fresh = IF latch.a_in_note THEN "select_in_note"
                              ELSE "select"]
    /\ pc' = "hi_b"
    /\ UNCHANGED <<now, irqVars, histVars, nticks, pureVars, status_last,
                   pwm, wake, emit, nemit, horizon>>

\* if(buttons.b_pressed) { player.is_playing = !player.is_playing;
\*                         player.current_note = 0;
HandleInputTestB ==
    /\ pc = "hi_b"
    /\ IF buttons.b_pressed
       THEN /\ player' = ButtonBEffect(player)
            /\ cyc' = [cyc EXCEPT !.took_b = TRUE, !.play_b = player.is_playing]
            /\ latch' = [latch EXCEPT !.b_in_note = FALSE, !.b_owed = FALSE,
                                      !.b_app = @ + 1]
            /\ pc' = "hi_b_clear"
       ELSE /\ pc' = "us"
            /\ UNCHANGED <<player, cyc, latch>>
    /\ UNCHANGED <<now, irqVars, histVars, nticks, pureVars, buttons,
                   status_last, pwm, wake, emit, nemit, horizon>>

HandleInputClearBWrongFlag ==
    /\ pc = "hi_b_clear"
    /\ buttons' = [buttons EXCEPT !.a_pressed = FALSE]
    /\ latch' = [latch EXCEPT !.b_since = 0]
    /\ pc' = "us"
    /\ UNCHANGED <<now, irqVars, histVars, nticks, pureVars, player,
                   status_last, pwm, wake, emit, nemit, cyc, horizon>>

\* buttons.b_pressed = false; }
HandleInputClearB ==
    /\ pc = "hi_b_clear"
    /\ buttons' = [buttons EXCEPT !.b_pressed = FALSE]
    /\ latch' = [latch EXCEPT !.b_since = 0]
    /\ pc' = "us"
    /\ UNCHANGED <<now, irqVars, histVars, nticks, pureVars, player,
                   status_last, pwm, wake, emit, nemit, cyc, horizon>>

\* the note branch of update_sound: the frequency recorded for display and
\* handed to play_tone, or a rest
NoteCommand(original, fm) ==
    IF original > 0
    THEN [tone |-> TRUE, current_freq |-> EffFreq(original, fm)]
    ELSE [tone |-> FALSE, current_freq |-> 0]

\* play_tone up to its sleep_ms: wrap and clock divider set for freq, duty 50%
play_tone(freq) == [freq |-> freq, level |-> "half"]

\* if(player.current_note >= melodies[buttons.index].length)
MelodyEndedOneEarly(note, length) == note >= length - 1
MelodyEnded(note, length) == note >= length

\* { player.is_playing = false; return; }
EndOfMelodyKeepsPlaying(p) == p
EndOfMelodyRewinds(p) == [p EXCEPT !.is_playing = FALSE, !.current_note = 0]
EndOfMelody(p) == [p EXCEPT !.is_playing = FALSE]

\* the call that finds the deadline not reached: only the multiplier changes
DeadlinePendingKeepsMult(p, fm) == p
DeadlinePending(p, fm) == [p EXCEPT !.freq_mult = fm]

\* update_sound up to the point where it blocks in play_tone or sleep_ms
UpdateSound ==
    /\ pc = "us"
    /\ IF ~player.is_playing
       THEN /\ pwm' = [pwm EXCEPT !.level = "zero"]
            /\ pc' = "ss"
            /\ UNCHANGED <<player, wake, emit, nemit, latch, cyc>>
       ELSE \E x \in JoyX :
            LET fm == FreqMult(x)
                mel == melodies[buttons.index + 1]
            IN  IF time_reached(player.next_note_time)
                THEN IF MelodyEnded(player.current_note, mel.length)
                     THEN /\ player' = EndOfMelody([player EXCEPT
                                                         !.freq_mult = fm])
                          /\ cyc' = [cyc EXCEPT !.x = x]
                          /\ pc' = "ss"
                          /\ UNCHANGED <<pwm, wake, emit, nemit, latch>>
                     ELSE LET original == mel.melody[player.current_note + 1]
                              duration == mel.durations[player.current_note + 1]
                              cmd == NoteCommand(original, fm)
                          IN  /\ make_timeout_time_ms(duration) <= horizon
                              /\ player' = [player EXCEPT !.freq_mult = fm,
                                              !.current_freq = cmd.current_freq]
                              /\ pwm' = IF cmd.tone
                                        THEN play_tone(cmd.current_freq)
                                        ELSE pwm
                              /\ wake' = make_timeout_time_ms(duration)
                              /\ emit' = [index |-> buttons.index,
                                          note |-> player.current_note,
                                          original |-> original,
                                          duration |-> duration,
                                          freq |-> cmd.current_freq,
                                          x |-> x, tone |-> cmd.tone,
                                          start |-> now, ended |-> FALSE,
                                          ended_at |-> 0,
                                          first_after |-> latch.fresh]
                              /\ nemit' = nemit + 1
                              /\ latch' = [latch EXCEPT !.fresh = "no"]
                              /\ cyc' = [cyc EXCEPT !.x = x]
                              /\ pc' = "note"
                ELSE /\ player' = DeadlinePending(player, fm)
                     /\ cyc' = [cyc EXCEPT !.x = x]
                     /\ pc' = "ss"
                     /\ UNCHANGED <<pwm, wake, emit, nemit, latch>>
    /\ UNCHANGED <<now, irqVars, histVars, nticks, pureVars, buttons,
                   status_last, horizon>>

NoteEndOnPress ==
    /\ pc = "note"
    /\ time_reached(wake) \/ buttons.b_pressed
    /\ pwm' = IF emit.tone THEN [pwm EXCEPT !.level = "zero"] ELSE pwm
    /\ player' = [player EXCEPT !.current_note = @ + 1,
                     !.next_note_time = make_timeout_time_ms(emit.duration)]
    /\ emit' = [emit EXCEPT !.ended = TRUE, !.ended_at = now]
    /\ pc' = "ss"
    /\ UNCHANGED <<now, irqVars, histVars, nticks, pureVars, buttons,
                   status_last, wake, nemit, cyc, latch, horizon>>

\* player.current_note++
NextNoteSkips(n) == n + 2
NextNote(n) == n + 1

\* player.next_note_time = make_timeout_time_ms(duration), evaluated when
\* the blocking call has returned
NextDeadlineFromNoteStart(e) == e.start + e.duration * 1000
NextDeadline(e) == make_timeout_time_ms(e.duration)

\* the sleep_ms of the note returns: play_tone silences the buzzer, then
\* player.current_note++ and the next deadline
NoteEnd ==
    /\ pc = "note"
    /\ time_reached(wake)
    /\ pwm' = IF emit.tone THEN [pwm EXCEPT !.level = "zero"] ELSE pwm
    /\ player' = [player EXCEPT !.current_note = NextNote(@),
                     !.next_note_time = NextDeadline(emit)]
    /\ emit' = [emit EXCEPT !.ended = TRUE, !.ended_at = now]
    /\ pc' = "ss"
    /\ UNCHANGED <<now, irqVars, histVars, nticks, pureVars, buttons,
                   status_last, wake, nemit, cyc, latch, horizon>>

\* show_status, then the loop enters sleep_ms(10)
ShowStatus ==
    /\ pc = "ss"
    /\ make_timeout_time_ms(LOOP_SLEEP_MS) <= horizon
    /\ status_last' = IF time_reached(status_last)
                      THEN make_timeout_time_ms(UPDATE_MS)
                      ELSE status_last
    /\ wake' = make_timeout_time_ms(LOOP_SLEEP_MS)
    /\ pc' = "sleep"
    /\ cyc' = CycleStart(buttons.index, player.current_note, player.is_playing)
    /\ UNCHANGED <<now, irqVars, histVars, nticks, pureVars, buttons, player,
                   pwm, emit, nemit, latch, horizon>>

\* sleep_ms(10) returns and the next cycle begins
LoopWake ==
    /\ pc = "sleep"
    /\ time_reached(wake)
    /\ pc' = "hi_a"
    /\ UNCHANGED <<now, irqVars, histVars, nticks, pureVars, buttons, player,
                   status_last, pwm, wake, emit, nemit, cyc, latch, horizon>>

\* the model lets a button edge arrive at the instants that are multiples
\* of PressGridMs; the first such instant after the present one
PressInstant == now % (PressGridMs * 1000) = 0
NextPressInstant == ((now \div (PressGridMs * 1000)) + 1) * (PressGridMs * 1000)

\* the clock runs while the loop is blocked, to the end of the sleep or to
\* the next instant at which an edge may arrive, whichever is first
TimePasses ==
    /\ pc \in {"note", "sleep"}
    /\ now < wake
    /\ now' = IF NextPressInstant < wake THEN NextPressInstant ELSE wake
    /\ last_op' = OpRecord("tick", 0, NULL, -1, 0, -1, -1, FALSE, FALSE)
    /\ UNCHANGED <<irqVars, last_call, owner, nticks, pureVars, buttons, loopVars>>

\* a falling edge on a button pin, served by the installed vector
EdgeServed(gpio) ==
    /\ irq_vector.handler = "gpio_irq_handler"
    /\ irq_vector.bank
    /\ "GPIO_IRQ_EDGE_FALL" \in irq_enabled[gpio]
    /\ gpio_irq_handler(gpio, "GPIO_IRQ_EDGE_FALL")

ButtonIrq(gpio) ==
    /\ PressInstant
    /\ EdgeServed(gpio)

\* the history of an edge on button A's pin: accepted or not, and where;
\* a_acc counts the invocations of btn_a_callback, a_since those since
\* handle_input last cleared the flag, a_app the transitions applied
LatchA(accepted) ==
    [latch EXCEPT !.a_in_note = IF accepted /\ pc = "note" THEN TRUE ELSE @,
                  !.at_nemit = IF accepted /\ pc = "note" THEN nemit ELSE @,
                  !.a_owed = IF accepted THEN TRUE ELSE @,
                  !.a_acc = IF accepted THEN @ + 1 ELSE @,
                  !.a_since = IF accepted THEN @ + 1 ELSE @]

LatchB(accepted) ==
    [latch EXCEPT !.b_in_note = IF accepted /\ pc = "note" THEN TRUE ELSE @,
                  !.at_nemit = IF accepted /\ pc = "note" THEN nemit ELSE @,
                  !.b_owed = IF accepted THEN TRUE ELSE @,
                  !.b_acc = IF accepted THEN @ + 1 ELSE @,
                  !.b_since = IF accepted THEN @ + 1 ELSE @]

PressA ==
    /\ ButtonIrq(BUTTON_A_PIN)
    /\ latch' = LatchA(last_op'.invoked = 1)
    /\ UNCHANGED <<now, nticks, pureVars, player, status_last, pwm, pc, wake,
                   emit, nemit, cyc, horizon>>

PressB ==
    /\ ButtonIrq(BUTTON_B_PIN)
    /\ latch' = LatchB(last_op'.invoked = 1)
    /\ UNCHANGED <<now, nticks, pureVars, player, status_last, pwm, pc, wake,
                   emit, nemit, cyc, horizon>>

\* an edge that arrives while handle_input stands between the test of a
\* flag and the write that clears it (the printf of the button A branch, the
\* two assignments of the button B branch), at whatever instant that is
PressInWindow ==
    /\ ~PressInstant
    /\ \/ /\ pc = "hi_a_clear"
          /\ EdgeServed(BUTTON_A_PIN)
          /\ latch' = LatchA(last_op'.invoked = 1)
       \/ /\ pc = "hi_b_clear"
          /\ EdgeServed(BUTTON_B_PIN)
          /\ latch' = LatchB(last_op'.invoked = 1)
    /\ UNCHANGED <<now, nticks, pureVars, player, status_last, pwm, pc, wake,
                   emit, nemit, cyc, horizon>>

\* the state main() reaches when init_hardware has returned
Init ==
    /\ now = 0
    /\ nticks = 0
    /\ horizon = MaxTimeMs * 1000
    /\ callbacks = [p \in TableIdx |->
                      IF p = BUTTON_A_PIN THEN "btn_a_callback"
                      ELSE IF p = BUTTON_B_PIN THEN "btn_b_callback" ELSE NULL]
    /\ last_interrupt_time = [p \in TableIdx |-> 0]
    /\ irq_enabled = [p \in TableIdx |->
                        IF p \in {BUTTON_A_PIN, BUTTON_B_PIN}
                        THEN {"GPIO_IRQ_EDGE_FALL"} ELSE {}]
    /\ irq_vector = gpio_irq_manager_init
    /\ last_call = [p \in TableIdx |-> -1]
    /\ owner = callbacks
    /\ last_op = OpRecord("register", BUTTON_B_PIN, "btn_b_callback", -1, 0,
                          -1, 0, TRUE, TRUE) @@ [slot_before |-> NULL]
    /\ BootPlayer
    /\ IdlePure

Next ==
    \/ HandleInputTestA
    \/ HandleInputClearA
    \/ HandleInputTestB
    \/ HandleInputClearB
    \/ UpdateSound
    \/ NoteEnd
    \/ ShowStatus
    \/ LoopWake
    \/ TimePasses
    \/ PressA
    \/ PressB

Spec == Init /\ [][Next]_vars

\* the program with edges arriving inside handle_input as well
NextRace ==
    \/ HandleInputTestA
    \/ HandleInputClearA
    \/ HandleInputTestB
    \/ HandleInputClearB
    \/ UpdateSound
    \/ NoteEnd
    \/ ShowStatus
    \/ LoopWake
    \/ TimePasses
    \/ PressA
    \/ PressB
    \/ PressInWindow

SpecRace == Init /\ [][NextRace]_vars

(***************************************************************************)
(* The worked scenario: the three-note melody selected, play just toggled  *)
(* on by the first button B press the debounce accepts, and no further     *)
(* button edge.  freq_mult holds 0 from boot (the value the program has    *)
(* there) or 1.0 (the value the scenario names); update_sound overwrites   *)
(* it from the joystick before it reads it.                                *)
(***************************************************************************)
ScenarioStart == (DEBOUNCE_DELAY_MS + PressGridMs) * 1000

ScenarioStartState ==
    /\ now = ScenarioStart
    /\ nticks = 0
    /\ callbacks = [p \in TableIdx |->
                      IF p = BUTTON_A_PIN THEN "btn_a_callback"
                      ELSE IF p = BUTTON_B_PIN THEN "btn_b_callback" ELSE NULL]
    /\ last_interrupt_time = [p \in TableIdx |->
                                IF p = BUTTON_B_PIN THEN ScenarioStart ELSE 0]
    /\ irq_enabled = [p \in TableIdx |->
                        IF p \in {BUTTON_A_PIN, BUTTON_B_PIN}
                        THEN {"GPIO_IRQ_EDGE_FALL"} ELSE {}]
    /\ irq_vector = gpio_irq_manager_init
    /\ last_call = [p \in TableIdx |->
                      IF p = BUTTON_B_PIN THEN ScenarioStart ELSE -1]
    /\ owner = callbacks
    /\ last_op = OpRecord("dispatch", BUTTON_B_PIN, "btn_b_callback",
                          ScenarioStart, 1, -1, 0, TRUE, TRUE)
    /\ buttons = [index |-> 0, a_pressed |-> FALSE, b_pressed |-> FALSE]
    /\ \E fm \in {0, Pow2(24)} :
          player = [current_note |-> 0, is_playing |-> TRUE,
                    next_note_time |-> 0, freq_mult |-> fm, current_freq |-> 0]
    /\ status_last = ScenarioStart
    /\ pwm = [freq |-> 0, level |-> "zero"]
    /\ pc = "us"
    /\ wake = ScenarioStart
    /\ emit = NoEmission
    /\ nemit = 0
    /\ cyc = [CycleStart(0, 0, FALSE) EXCEPT !.took_b = TRUE]
    /\ latch = [a_in_note |-> FALSE, at_nemit |-> 0, fresh |-> "no",
                b_in_note |-> FALSE, a_owed |-> FALSE, b_owed |-> FALSE,
                a_acc |-> 0, a_app |-> 0, a_since |-> 0,
                b_acc |-> 1, b_app |-> 1, b_since |-> 0]
    /\ IdlePure

InitScenario ==
    /\ ScenarioStartState
    /\ horizon = 2 * MaxTimeMs * 1000

NextScenario ==
    \/ HandleInputTestA
    \/ HandleInputTestB
    \/ UpdateSound
    \/ NoteEnd
    \/ ShowStatus
    \/ LoopWake
    \/ TimePasses

SpecScenario == InitScenario /\ [][NextScenario]_vars

\* the same start, with button B: its edges may arrive while the melody
\* plays, the third note included
InitInterrupted ==
    /\ ScenarioStartState
    /\ horizon = ScenarioStart + MaxTimeMs * 1000

NextInterrupted ==
    \/ HandleInputTestA
    \/ HandleInputTestB
    \/ HandleInputClearB
    \/ UpdateSound
    \/ NoteEnd
    \/ ShowStatus
    \/ LoopWake
    \/ TimePasses
    \/ PressB

SpecInterrupted == InitInterrupted /\ [][NextInterrupted]_vars

\* the same start, with button A: its edges may arrive while the melody
\* plays, its 300 ms third note included, and inside handle_input
NextLongNote ==
    \/ HandleInputTestA
    \/ HandleInputClearA
    \/ HandleInputTestB
    \/ UpdateSound
    \/ NoteEnd
    \/ ShowStatus
    \/ LoopWake
    \/ TimePasses
    \/ PressA
    \/ PressInWindow

SpecLongNote == InitScenario /\ [][NextLongNote]_vars

(***************************************************************************)
(* Playback left to itself.  Melody i of the catalog has just been toggled *)
(* on: button A was accepted and consumed i times, 300 ms apart, and the   *)
(* call that consumed the last of them (the only call, for i = 0) consumed *)
(* the one accepted press of button B as well; no further edge arrives.    *)
(* The loop keeps running and the clock keeps advancing.                   *)
(***************************************************************************)
PlaybackStartTime(i) == IF i = 0 THEN ScenarioStart ELSE i * ScenarioStart

PlaybackStartState(i) ==
    LET start == PlaybackStartTime(i)
        pressedA == i > 0
    IN  /\ now = start
        /\ nticks = 0
        /\ callbacks = [p \in TableIdx |->
                          IF p = BUTTON_A_PIN THEN "btn_a_callback"
                          ELSE IF p = BUTTON_B_PIN THEN "btn_b_callback" ELSE NULL]
        /\ last_interrupt_time = [p \in TableIdx |->
                                    IF p = BUTTON_B_PIN \/ (p = BUTTON_A_PIN /\ pressedA)
                                    THEN start ELSE 0]
        /\ irq_enabled = [p \in TableIdx |->
                            IF p \in {BUTTON_A_PIN, BUTTON_B_PIN}
                            THEN {"GPIO_IRQ_EDGE_FALL"} ELSE {}]
        /\ irq_vector = gpio_irq_manager_init
        /\ last_call = [p \in TableIdx |->
                          IF p = BUTTON_B_PIN \/ (p = BUTTON_A_PIN /\ pressedA)
                          THEN start ELSE -1]
        /\ owner = callbacks
        /\ last_op = OpRecord("dispatch", BUTTON_B_PIN, "btn_b_callback",
                              start, 1, -1, 0, TRUE, TRUE)
        /\ buttons = [index |-> i, a_pressed |-> FALSE, b_pressed |-> FALSE]
        /\ player = [current_note |-> 0, is_playing |-> TRUE,
                     next_note_time |-> 0, freq_mult |-> 0, current_freq |-> 0]
        /\ status_last = start
        /\ pwm = [freq |-> 0, level |-> "zero"]
        /\ pc = "us"
        /\ wake = start
        /\ emit = NoEmission
        /\ nemit = 0
        /\ cyc = [CycleStart(IF pressedA THEN i - 1 ELSE 0, 0, FALSE)
                     EXCEPT !.took_a = pressedA, !.b0 = pressedA, !.took_b = TRUE]
        /\ latch = [a_in_note |-> FALSE, at_nemit |-> 0,
                    fresh |-> IF pressedA THEN "select" ELSE "no",
                    b_in_note |-> FALSE, a_owed |-> FALSE, b_owed |-> FALSE,
                    a_acc |-> i, a_app |-> i, a_since |-> 0,
                    b_acc |-> 1, b_app |-> 1, b_since |-> 0]
        /\ IdlePure

InitPlayback ==
    /\ \E i \in 0 .. CatalogLength - 1 : PlaybackStartState(i)
    /\ horizon = 2 * MaxTimeMs * 1000

\* no edge arrives: the steps are those of the loop and of the clock
NextPlayback ==
    \/ HandleInputTestA
    \/ HandleInputTestB
    \/ UpdateSound
    \/ NoteEnd
    \/ ShowStatus
    \/ LoopWake
    \/ TimePasses

SpecPlayback == InitPlayback /\ [][NextPlayback]_vars /\ WF_vars(NextPlayback)

(***************************************************************************)
(* The frequency computation of update_sound on its own: a stored note     *)
(* frequency and a joystick sample go in, the note command comes out.      *)
(***************************************************************************)
FreqSamples == {0, 1, 3, 262, 390, 440, 880, 2093}

InitFreq ==
    /\ now = 0
    /\ nticks = 0
    /\ horizon = 0
    /\ BootTables
    /\ BootPlayer
    /\ mv = [value |-> 0, min_input |-> 0, max_input |-> 0, min_output |-> 0,
             max_output |-> 0, out |-> 0, done |-> FALSE, overflow |-> FALSE]
    /\ \E f \in FreqSamples, x \in 0 .. ADC_FULL_SCALE :
          fq = [f |-> f, x |-> x, fm |-> 0, out |-> 0, done |-> FALSE]

FreqCompute ==
    /\ ~fq.done
    /\ fq' = [fq EXCEPT !.fm = FreqMult(fq.x),
                        !.out = NoteCommand(fq.f, FreqMult(fq.x)).current_freq,
                        !.done = TRUE]
    /\ UNCHANGED <<now, irqVars, histVars, nticks, buttons, loopVars, mv>>

NextFreq == FreqCompute

SpecFreq == InitFreq /\ [][NextFreq]_vars

(***************************************************************************)
(* joystickPi_map_value.  The operands are promoted to int (32 bits on the *)
(* target), so the product is a signed 32-bit multiplication: when it does *)
(* not fit the behaviour is undefined, and the outcomes kept here are the  *)
(* two's-complement wrap of the multiply instruction and the value a build *)
(* that folds or widens the expression yields.  The product is held as     *)
(* high * 256 + low so that no intermediate value leaves 32 bits.          *)
(***************************************************************************)
Abs(v) == IF v < 0 THEN -v ELSE v

\* C integer division truncates toward zero
CDiv(a, b) ==
    IF (a < 0) = (b < 0) THEN Abs(a) \div Abs(b) ELSE -(Abs(a) \div Abs(b))

\* conversion of an int to int16_t keeps the low 16 bits
ToInt16(v) == (((v % Pow2(16)) + Pow2(15)) % Pow2(16)) - Pow2(15)

ProductLow(a, b) == (Abs(a) * (Abs(b) % 256)) % 256
ProductHigh(a, b) ==
    Abs(a) * (Abs(b) \div 256) + ((Abs(a) * (Abs(b) % 256)) \div 256)
ProductNegative(a, b) == (a < 0) # (b < 0)

ProductOverflows(a, b) == ProductHigh(a, b) >= Pow2(23)

\* the product as the 32-bit multiply leaves it
WrappedProduct(a, b) ==
    LET hi == ProductHigh(a, b)
        lo == ProductLow(a, b)
    IN  IF ~ProductOverflows(a, b)
        THEN IF ProductNegative(a, b) THEN -(hi * 256 + lo) ELSE hi * 256 + lo
        ELSE IF ~ProductNegative(a, b)
             THEN (hi - Pow2(24)) * 256 + lo
             ELSE IF lo = 0
                  THEN (Pow2(24) - hi) * 256
                  ELSE (Pow2(24) - hi - 1) * 256 + (256 - lo)

\* the low 16 bits of the mathematical quotient (a * b) / c, with its sign
WideQuotient(a, b, c) ==
    LET hi == ProductHigh(a, b)
        lo == ProductLow(a, b)
        q1 == hi \div Abs(c)
        q0 == ((hi % Abs(c)) * 256 + lo) \div Abs(c)
        q  == (q1 % 256) * 256 + q0
    IN  IF ProductNegative(a, b) # (c < 0) THEN -q ELSE q

\* the values a call can return
joystickPi_map_value(value, min_input, max_input, min_output, max_output) ==
    LET a == value - min_input
        b == max_output - min_output
        c == max_input - min_input
        wrapped == ToInt16((CDiv(WrappedProduct(a, b), c) % Pow2(16)) + min_output)
        wide    == ToInt16(WideQuotient(a, b, c) + min_output)
    IN  IF ProductOverflows(a, b) THEN {wrapped, wide} ELSE {wrapped}

U16Samples == {0, 1, 4095, 65535}
I16Samples == {-32768, -100, 0, 100, 32767}

InitMap ==
    /\ now = 0
    /\ nticks = 0
    /\ horizon = 0
    /\ BootTables
    /\ BootPlayer
    /\ fq = [f |-> 0, x |-> 0, fm |-> 0, out |-> 0, done |-> FALSE]
    /\ \E v \in U16Samples, imin \in U16Samples, imax \in U16Samples,
          omin \in I16Samples, omax \in I16Samples :
          /\ imin # imax
          /\ mv = [value |-> v, min_input |-> imin, max_input |-> imax,
                   min_output |-> omin, max_output |-> omax,
                   out |-> 0, done |-> FALSE, overflow |-> FALSE]

MapCompute ==
    /\ ~mv.done
    /\ \E r \in joystickPi_map_value(mv.value, mv.min_input, mv.max_input,
                                     mv.min_output, mv.max_output) :
          mv' = [mv EXCEPT !.out = r,
                           !.done = TRUE,
                           !.overflow = ProductOverflows(mv.value - mv.min_input,
                                                         mv.max_output - mv.min_output)]
    /\ UNCHANGED <<now, irqVars, histVars, nticks, buttons, loopVars, fq>>

NextMap == MapCompute

SpecMap == InitMap /\ [][NextMap]_vars

(***************************************************************************)
(* Properties of the dispatch layer, checked under SpecIrq.  last_op is    *)
(* the operation performed at the current instant, with what it read       *)
(* before it acted.                                                        *)
(***************************************************************************)
DebounceUs == DEBOUNCE_DELAY_MS * 1000

\* the operation just performed is a dispatch on a valid pin whose slot
\* holds a callback
DispatchedOnWiredPin ==
    /\ last_op.op = "dispatch"
    /\ last_op.gpio < MAX_GPIO_PINS
    /\ last_op.slot # NULL

FlagOf(cb) == IF cb = "btn_a_callback" THEN buttons.a_pressed ELSE buttons.b_pressed

\* C1: on a valid pin with a registered callback, a dispatch made after the
\* debounce window has elapsed invokes the callback exactly once, a dispatch
\* made within the window of the last invocation invokes nothing, and so two
\* invocations for one pin are at least the 200 ms window apart.
C1_DebouncedOnce ==
    DispatchedOnWiredPin =>
        /\ last_op.invoked \in {0, 1}
        /\ last_op.elapsed > DebounceUs => last_op.invoked = 1 /\ FlagOf(last_op.slot)
        /\ (last_op.since_prev # -1 /\ last_op.since_prev < DebounceUs)
              => last_op.invoked = 0
        /\ (last_op.invoked = 1 /\ last_op.since_prev # -1)
              => last_op.since_prev >= DebounceUs

\* a second dispatch, one microsecond or more after an accepted one and still
\* inside its window, has been dropped
C1_Witness ==
    /\ DispatchedOnWiredPin
    /\ last_op.since_prev > 0
    /\ last_op.since_prev < DebounceUs
    /\ last_op.invoked = 0
    /\ FlagOf(last_op.slot)

\* C2 as stated: a dispatch on a wired pin is dropped exactly when less than
\* 200 ms have elapsed since the pin's last accepted trigger, so that one
\* arriving exactly 200 ms after it is accepted.
C2_DroppedIffBelowWindow ==
    DispatchedOnWiredPin =>
        (last_op.invoked = 0 <=> last_op.elapsed < DebounceUs)

\* C2 as the code has it: a dispatch on a wired pin is dropped exactly when at
\* most 200 ms have elapsed (the test is a strict "more than 200 ms"); an
\* accepted dispatch sets the pin's timestamp to now and invokes the callback;
\* a dropped one invokes nothing and leaves the timestamp as it was.
C2_DroppedIffWithinWindow ==
    DispatchedOnWiredPin =>
        /\ last_op.invoked = 0 <=> last_op.elapsed <= DebounceUs
        /\ last_op.invoked = 1 =>
              /\ last_interrupt_time[last_op.gpio] = now
              /\ FlagOf(last_op.slot)
        /\ last_op.invoked = 0 =>
              /\ last_interrupt_time[last_op.gpio] = last_op.lit_before
              /\ last_call[last_op.gpio] # now \/ last_op.since_prev = 0
              /\ ~last_op.changed

\* a dispatch exactly 200 ms after the last accepted trigger has been dropped
C2_Witness ==
    /\ DispatchedOnWiredPin
    /\ last_op.elapsed = DebounceUs
    /\ last_op.invoked = 0
    /\ last_interrupt_time[last_op.gpio] = last_op.lit_before

\* C3: for a pin number at or past the table capacity, register, remove and
\* dispatch touch no slot and no timestamp, invoke nothing and leave every
\* interrupt enable alone, and attaching a button on such a pin wires nothing.
C3_OutOfRangeNoOp ==
    /\ \A p \in TableIdx :
          p >= MAX_GPIO_PINS =>
              /\ callbacks[p] = NULL
              /\ last_interrupt_time[p] = 0
              /\ irq_enabled[p] = {}
              /\ last_call[p] = -1
    /\ (last_op.op \in {"dispatch", "register", "remove", "attach"}
          /\ last_op.gpio >= MAX_GPIO_PINS)
         => /\ ~last_op.touched
            /\ ~last_op.changed
            /\ last_op.invoked = 0
    /\ last_op.op = "attach" => last_op.gpio >= MAX_GPIO_PINS

\* a dispatch on pin 30 has been made while button A's pin is wired and its
\* debounce window has passed
C3_Witness ==
    /\ last_op.op = "dispatch"
    /\ last_op.gpio >= MAX_GPIO_PINS
    /\ callbacks[BUTTON_A_PIN] # NULL
    /\ now > DebounceUs

\* C12: each valid pin holds at most one callback, the one of the last
\* register call made for it, whatever the slot held and whatever the event
\* mask; after a remove call the slot is empty until the next register; an
\* accepted dispatch invokes the callback of the last register call and no
\* other, and a dispatch on an emptied pin invokes nothing.
C12_SlotHoldsLastRegistered ==
    /\ [](/\ \A p \in TableIdx : p < MAX_GPIO_PINS => callbacks[p] = owner[p]
          /\ (last_op.op = "register" /\ last_op.gpio < MAX_GPIO_PINS) =>
                callbacks[last_op.gpio] = last_op.slot
          /\ (last_op.op = "remove" /\ last_op.gpio < MAX_GPIO_PINS) =>
                callbacks[last_op.gpio] = NULL
          /\ (last_op.op = "dispatch" /\ last_op.gpio < MAX_GPIO_PINS) =>
                /\ last_op.slot = owner[last_op.gpio]
                /\ owner[last_op.gpio] = NULL => last_op.invoked = 0
                /\ last_op.invoked = 1 => FlagOf(owner[last_op.gpio]))
    /\ [][buttons' # buttons =>
             /\ last_op'.op = "dispatch"
             /\ last_op'.gpio < MAX_GPIO_PINS
             /\ owner[last_op'.gpio] # NULL
             /\ buttons' = Invoke(owner[last_op'.gpio], buttons)]_vars

\* a register call has just replaced the other callback in a pin's slot
C12_Witness ==
    /\ last_op.op = "register"
    /\ last_op.gpio < MAX_GPIO_PINS
    /\ last_op.slot_before \notin {NULL, last_op.slot}
    /\ callbacks[last_op.gpio] = last_op.slot

(***************************************************************************)
(* Properties of the player, checked under Spec.  cyc holds what           *)
(* handle_input found when the polling cycle began and which flags it has  *)
(* consumed since.                                                         *)
(***************************************************************************)
\* handle_input has just consumed the button A flag
ConsumedA == pc = "hi_b" /\ cyc.took_a

\* handle_input has just applied the button B branch
ConsumedB == pc \in {"hi_b_clear", "us"} /\ cyc.took_b

\* C4 as stated: consuming a pending button A flag leaves the player Paused
\* with current_note = 0, whatever the playing flag and current_note were.
C4_AdvanceRewinds ==
    ConsumedA => ~player.is_playing /\ player.current_note = 0

\* C4 as the code has it: consuming a pending button A flag leaves the player
\* Paused whatever the playing flag was, and leaves current_note as it was
\* (the melody length included); only button B sets current_note to 0.
C4_AdvancePausesKeepsNote ==
    ConsumedA => ~player.is_playing /\ player.current_note = cyc.note0

\* button A has been consumed while the player was Playing past note 0
C4_Witness ==
    /\ ConsumedA
    /\ cyc.play0
    /\ cyc.note0 > 0
    /\ ~player.is_playing

\* C5: the selected index is always within the catalog, a consumed button A
\* press moves it to the next index, wrapping from the last to 0, and it
\* changes in no other way.
C5_IndexWraps ==
    /\ buttons.index >= 0
    /\ buttons.index < CatalogLength
    /\ buttons.index =
          IF cyc.took_a \/ pc = "hi_a_clear"
          THEN (IF cyc.index0 = CatalogLength - 1 THEN 0 ELSE cyc.index0 + 1)
          ELSE cyc.index0

\* button A has been consumed with the last melody selected
C5_Witness ==
    /\ ConsumedA
    /\ cyc.index0 = CatalogLength - 1
    /\ buttons.index = 0

\* C6: consuming a pending button B flag flips the playing flag and sets
\* current_note to 0, from Paused to Playing and from Playing to Paused.
C6_ToggleRewinds ==
    ConsumedB =>
        /\ player.is_playing = ~cyc.play_b
        /\ player.current_note = 0

\* button B has been consumed while the player was Playing past note 0
C6_Witness ==
    /\ ConsumedB
    /\ cyc.play_b
    /\ cyc.note0 > 0
    /\ ~player.is_playing

\* C8: a button A press accepted while a note sounds leaves that note its
\* frequency and its full duration; no further note starts before the press
\* is consumed, which pauses the player on the next melody; and the first
\* note emitted after a selection change is note 0 of the selected melody.
C8_AdvanceDuringNote ==
    /\ pc = "note" =>
          /\ wake = emit.start + emit.duration * 1000
          /\ player.current_freq = emit.freq
          /\ emit.freq = NoteCommand(emit.original, FreqMult(emit.x)).current_freq
          /\ emit.tone => pwm = play_tone(emit.freq)
    /\ emit.ended => emit.ended_at = emit.start + emit.duration * 1000
    /\ latch.a_in_note =>
          /\ nemit = latch.at_nemit
          /\ buttons.a_pressed
    /\ ConsumedA =>
          /\ ~player.is_playing
          /\ buttons.index # cyc.index0
    /\ emit.first_after # "no" =>
          /\ emit.note = 0
          /\ emit.original = melodies[emit.index + 1].melody[1]

\* button A was accepted during a note, then consumed, play was toggled on
\* and the first note of another melody has been emitted in full
C8_Witness ==
    /\ emit.first_after = "select_in_note"
    /\ emit.ended
    /\ emit.note = 0
    /\ emit.index # 0

\* the step is the interrupt handler accepting an edge on the pin: the
\* polling loop stays where it is and the player is not touched
AcceptedIrqStep(pin) ==
    /\ last_op'.op = "dispatch"
    /\ last_op'.gpio = pin
    /\ last_op'.invoked = 1
    /\ pc' = pc
    /\ player' = player
    /\ buttons'.index = buttons.index

\* C13: in every interleaving of the interrupt handler with the polling
\* loop, a press flag goes from false to true only in the handler's callback
\* for that button, goes from true to false only in handle_input, and is
\* cleared only by the handle_input call that applies that button's
\* transition (next melody and pause for A, toggle and rewind for B).
C13_SingleWriterPerDirection ==
    [][/\ (~buttons.a_pressed /\ buttons'.a_pressed) =>
              AcceptedIrqStep(BUTTON_A_PIN)
       /\ (~buttons.b_pressed /\ buttons'.b_pressed) =>
              AcceptedIrqStep(BUTTON_B_PIN)
       /\ (buttons.a_pressed /\ ~buttons'.a_pressed) =>
              /\ pc = "hi_a_clear"
              /\ pc' = "hi_b"
              /\ buttons'.index = (cyc.index0 + 1) % CatalogLength
              /\ ~player'.is_playing
              /\ buttons'.b_pressed = buttons.b_pressed
       /\ (buttons.b_pressed /\ ~buttons'.b_pressed) =>
              /\ pc = "hi_b_clear"
              /\ pc' = "us"
              /\ cyc.took_b
              /\ player'.is_playing = ~cyc.play_b
              /\ player'.current_note = 0
              /\ buttons'.a_pressed = buttons.a_pressed]_vars

\* handle_input has consumed button A's flag, and the handler has set button
\* B's flag in the same instant, which the loop has yet to test
C13_Witness ==
    /\ pc = "hi_b"
    /\ cyc.took_a
    /\ ~player.is_playing
    /\ buttons.b_pressed
    /\ last_op.op = "dispatch"
    /\ last_op.gpio = BUTTON_B_PIN
    /\ last_op.invoked = 1
    /\ last_call[BUTTON_B_PIN] = now
    /\ ~buttons.a_pressed

\* update_sound has returned in the cycle whose handle_input toggled play on
AfterToggleOn == pc = "ss" /\ cyc.took_b /\ ~cyc.play_b

\* C16 as stated: toggling play on (after a pause or a selection change)
\* invalidates the next-note deadline, so the first update_sound run in
\* Playing after the toggle emits note 0 at once: when it returns, note 0 has
\* been emitted and current_note is 1.
C16_DeadlineInvalidated ==
    AfterToggleOn =>
        /\ player.current_note = 1
        /\ emit.ended
        /\ emit.note = 0

\* C16 as the code has it: neither branch of handle_input touches the
\* deadline, which stays at the end of the last emitted note plus that note's
\* duration; the first update_sound run in Playing after the toggle emits
\* note 0 only if that deadline is reached, and otherwise emits nothing and
\* leaves note 0 to the first polling cycle at or after the deadline.
C16_DeadlineKept ==
    /\ nemit = 0 => player.next_note_time = 0
    /\ emit.ended =>
          player.next_note_time = emit.ended_at + emit.duration * 1000
    /\ pc = "note" => player.next_note_time <= emit.start
    /\ AfterToggleOn =>
          /\ player.is_playing
          /\ player.current_note \in {0, 1}
          /\ player.current_note = 0 =>
                /\ ~time_reached(player.next_note_time)
                /\ nemit > 0
                /\ now < emit.ended_at + emit.duration * 1000
          /\ player.current_note = 1 =>
                /\ emit.ended
                /\ emit.note = 0
                /\ emit.ended_at = now

\* play has been toggled on, after button A changed the selection, while the
\* deadline left by the last note is still pending: update_sound has returned
\* without emitting note 0
C16_Witness ==
    /\ AfterToggleOn
    /\ player.is_playing
    /\ player.current_note = 0
    /\ buttons.index # emit.index
    /\ emit.ended
    /\ now < player.next_note_time

\* whether the player was Playing when handle_input returned in this cycle
PlayingAfterInput ==
    IF cyc.took_b THEN ~cyc.play_b
    ELSE IF cyc.took_a THEN FALSE ELSE cyc.play0

\* update_sound has returned from its end-of-melody branch: it found the
\* player Playing and has left it Paused
EndBranchTaken == pc = "ss" /\ PlayingAfterInput /\ ~player.is_playing

\* C17: update_sound reads a note and its duration only at an index within
\* the selected melody, also when a shorter melody was selected meanwhile;
\* when it finds the player Playing with the deadline reached and
\* current_note at or past the length, it pauses the player, leaves
\* current_note as it is and emits nothing.
C17_EndIsTerminal ==
    /\ pc = "note" =>
          /\ emit.index = buttons.index
          /\ emit.note >= 0
          /\ emit.note < melodies[emit.index + 1].length
          /\ emit.note = player.current_note
          /\ emit.original = melodies[emit.index + 1].melody[emit.note + 1]
          /\ emit.duration = melodies[emit.index + 1].durations[emit.note + 1]
    /\ player.current_note >= 0
    /\ (pc = "us" /\ player.is_playing) =>
          player.current_note <= melodies[buttons.index + 1].length
    /\ (pc = "ss" /\ player.is_playing) =>
          ~time_reached(player.next_note_time)
    /\ EndBranchTaken =>
          /\ player.current_note >= melodies[buttons.index + 1].length
          /\ player.current_note = cyc.note0
          /\ ~cyc.took_a /\ ~cyc.took_b
          /\ time_reached(player.next_note_time)
          /\ emit.ended
          /\ emit.ended_at < now
          /\ pwm.level = "zero"

\* the second melody has played its two notes and update_sound has paused
\* the player at current_note = 2
C17_Witness ==
    /\ EndBranchTaken
    /\ buttons.index = 1
    /\ player.current_note = melodies[2].length
    /\ nemit = melodies[2].length
    /\ emit.index = 1

C19_MultiplierFollowsStick ==
    /\ [](/\ pc \in {"ss", "note"} =>
                /\ PlayingAfterInput <=> cyc.x # -1
                /\ cyc.x # -1 => player.freq_mult = FreqMult(cyc.x)
          /\ pc = "note" => cyc.x = emit.x
          /\ pc \notin {"ss", "note"} => cyc.x = -1)
    /\ [][player'.freq_mult # player.freq_mult =>
             /\ pc = "us"
             /\ player.is_playing]_vars

\* update_sound has run Playing with the deadline pending and has replaced
\* the multiplier the last note was emitted with by another sample's
C19_Witness ==
    /\ pc = "ss"
    /\ player.is_playing
    /\ emit.ended
    /\ ~time_reached(player.next_note_time)
    /\ cyc.x # -1
    /\ cyc.x # emit.x
    /\ player.freq_mult = FreqMult(cyc.x)
    /\ player.freq_mult # FreqMult(emit.x)

(***************************************************************************)
(* The worked scenario, checked under SpecScenario.                        *)
(***************************************************************************)
ScenarioFreqs == <<440, 0, 880>>
ScenarioDurations == <<200, 100, 300>>

RECURSIVE StartIfSingleWait(_)
StartIfSingleWait(k) ==
    IF k = 1 THEN ScenarioStart
    ELSE StartIfSingleWait(k - 1)
         + (ScenarioDurations[k - 1] + LOOP_SLEEP_MS) * 1000

RECURSIVE StartIfDoubleWait(_)
StartIfDoubleWait(k) ==
    IF k = 1 THEN ScenarioStart
    ELSE StartIfDoubleWait(k - 1) + 2 * ScenarioDurations[k - 1] * 1000

\* C15 as stated: the deadline stored after a note of duration d is already
\* reached on the following polling cycle, so with no button input
\* consecutive notes start d plus the loop's yield apart.
C15_SingleWait ==
    /\ nemit >= 1 => emit.start <= StartIfSingleWait(nemit)
    /\ (emit.ended /\ pc = "us" /\ player.is_playing) =>
          time_reached(player.next_note_time)

\* C15 as the code has it: the deadline is computed when the blocking call
\* has returned, so it lies d after the END of the note and is not reached
\* on the following polling cycle; with no button input the next note starts
\* at the first polling cycle at or after that deadline, and consecutive
\* notes start 2d apart (plus the loop's yield).
C15_DoubleWait ==
    /\ nemit >= 1 => emit.start = StartIfDoubleWait(nemit)
    /\ emit.ended =>
          /\ emit.ended_at = emit.start + emit.duration * 1000
          /\ player.next_note_time = emit.ended_at + emit.duration * 1000
    /\ pc = "note" => player.next_note_time <= emit.start
    /\ (emit.ended /\ now < emit.ended_at + emit.duration * 1000) =>
          /\ ~time_reached(player.next_note_time)
          /\ player.current_note = nemit

\* the third note has started 2 * (200 + 100) ms after the first
C15_Witness ==
    /\ nemit = Len(ScenarioDurations)
    /\ pc = "note"
    /\ emit.start = ScenarioStart + 600 * 1000
    /\ emit.start > StartIfSingleWait(nemit)


(***************************************************************************)
(* The frequency computation, checked under SpecFreq.                      *)
(***************************************************************************)
\* f * (0.5 + x/4095) is ExactNum / ExactDen
ExactNum == fq.f * (ADC_FULL_SCALE + 2 * fq.x)
ExactDen == 2 * ADC_FULL_SCALE
\* bound on the rounding error of the three float operations, in 1/ExactDen
FloatErr == (ExactNum \div Pow2(21)) + 1

\* C9 as stated: for a positive stored frequency the emitted frequency is
\* f * (0.5 + x/4095) rounded to the nearest integer.
C9_RoundToNearest ==
    (fq.done /\ fq.f > 0) =>
        fq.out = (2 * ExactNum + ExactDen) \div (2 * ExactDen)

\* C9 as the code has it: for a positive stored frequency the emitted
\* frequency is the single-precision product f * freq_mult converted to int,
\* that is truncated toward zero, the product lying within 2^-21 (relative)
\* of f * (0.5 + x/4095); freq_mult = 1.5 with f = 440 gives 660.
C9_TruncatedProduct ==
    (fq.done /\ fq.f > 0) =>
        /\ fq.out >= (ExactNum - FloatErr) \div ExactDen
        /\ fq.out <= (ExactNum + FloatErr) \div ExactDen
        /\ (fq.f = 440 /\ fq.x = ADC_FULL_SCALE) => fq.out = 660

\* 440 Hz with the stick at 2047: the product 439.946... has been emitted as
\* 439, where rounding would give 440
C9_Witness ==
    /\ fq.done
    /\ fq.f = 440
    /\ fq.x = 2047
    /\ fq.out = 439

(***************************************************************************)
(* The range mapping, checked under SpecMap.                               *)
(***************************************************************************)
\* C10: for in_min # in_max the mapping is exact at the endpoints, the widest
\* ranges included: in_min maps to out_min and in_max maps to out_max.
C10_EndpointsExact ==
    (mv.done /\ mv.min_input # mv.max_input) =>
        /\ mv.value = mv.min_input => mv.out = mv.min_output
        /\ mv.value = mv.max_input => mv.out = mv.max_output

\* C11: for in_min # in_max the call returns out_min plus the quotient
\* (value - in_min) * (out_max - out_min) / (in_max - in_min) truncated toward
\* zero, and for in_min <= value <= in_max the result lies between out_min and
\* out_max inclusive, the 32-bit intermediate and the 16-bit cast wrapping
\* nothing.
C11_LinearInRange ==
    (mv.done /\ mv.min_input # mv.max_input) =>
        LET quotient == WideQuotient(mv.value - mv.min_input,
                                     mv.max_output - mv.min_output,
                                     mv.max_input - mv.min_input)
            lo == IF mv.min_output < mv.max_output THEN mv.min_output
                  ELSE mv.max_output
            hi == IF mv.min_output < mv.max_output THEN mv.max_output
                  ELSE mv.min_output
        IN  /\ mv.out = ToInt16(mv.min_output + quotient)
            /\ (mv.min_input <= mv.value /\ mv.value <= mv.max_input) =>
                  /\ mv.out = mv.min_output + quotient
                  /\ lo <= mv.out
                  /\ mv.out <= hi

(***************************************************************************)
(* Button B during the melody, checked under SpecInterrupted.              *)
(***************************************************************************)
\* C14: a note that has started is never cancelled: while it sounds the
\* buzzer stays on the note's frequency (silent for a rest) and the player
\* stays Playing on that note, whatever the handler accepts meanwhile; the
\* note ends after its full stored duration; a button B press accepted
\* during the note stays pending, with no further note emitted, until the
\* next handle_input applies it, so that the pause starts with the next note.
C14_ToneNotCancelled ==
    /\ pc = "note" =>
          /\ player.is_playing
          /\ player.current_note = emit.note
          /\ wake = emit.start + emit.duration * 1000
          /\ now <= wake
          /\ emit.tone => pwm = play_tone(emit.freq)
          /\ ~emit.tone => pwm.level = "zero"
    /\ (nemit > 0 /\ pc # "note") => emit.ended
    /\ emit.ended =>
          /\ emit.ended_at = emit.start + emit.duration * 1000
          /\ now >= emit.ended_at
    /\ latch.b_in_note =>
          /\ buttons.b_pressed
          /\ nemit = latch.at_nemit
          /\ last_call[BUTTON_B_PIN] >= emit.start
          /\ emit.ended => last_call[BUTTON_B_PIN] <= emit.ended_at
    /\ (pc \in {"hi_b_clear", "us"} /\ cyc.took_b /\ cyc.play_b) =>
          ~player.is_playing

\* button B was accepted strictly inside a tone, which has sounded for its
\* full duration; the press is still pending and the player still Playing
C14_Witness ==
    /\ latch.b_in_note
    /\ emit.tone
    /\ emit.ended
    /\ emit.ended_at = emit.start + emit.duration * 1000
    /\ last_call[BUTTON_B_PIN] > emit.start
    /\ last_call[BUTTON_B_PIN] < emit.ended_at
    /\ player.is_playing
    /\ pwm.level = "zero"

(***************************************************************************)
(* Presses against the polling loop, checked under SpecRace.               *)
(***************************************************************************)
\* C20: a press the handler accepts, at whatever point of the polling loop,
\* is never lost: the flag it sets stays true until a handle_input that
\* tests it afterwards applies the button's transition, before any further
\* note is emitted.
C20_PressNeverLost ==
    /\ latch.a_owed => buttons.a_pressed
    /\ latch.b_owed => buttons.b_pressed
    /\ (pc = "note" /\ emit.start > last_call[BUTTON_A_PIN]) => ~latch.a_owed
    /\ (pc = "note" /\ emit.start > last_call[BUTTON_B_PIN]) => ~latch.b_owed

\* C21: when both press flags are pending as a handle_input call starts, the
\* call applies button A's branch and then button B's: it returns with the
\* next melody selected, the toggle having flipped the Paused state button A
\* left, so the player is Playing at note 0 whatever it was before.
C21_AdvanceThenToggle ==
    (pc = "us" /\ cyc.took_a /\ cyc.b0) =>
        /\ cyc.took_b
        /\ ~cyc.play_b
        /\ player.is_playing
        /\ player.current_note = 0
        /\ buttons.index = NextIndex(cyc.index0)

\* handle_input has returned from a call that found both flags pending
\* while the player was Playing past note 0
C21_Witness ==
    /\ pc = "us"
    /\ cyc.took_a
    /\ cyc.b0
    /\ cyc.took_b
    /\ cyc.play0
    /\ cyc.note0 > 0
    /\ player.is_playing


\* the step applies a button's transition: handle_input found the flag set
AppliesA == pc = "hi_a" /\ pc' = "hi_a_clear"
AppliesB == pc = "hi_b" /\ pc' = "hi_b_clear"

\* the step is handle_input's write that clears a button's flag
ClearsA == pc = "hi_a_clear" /\ pc' # pc
ClearsB == pc = "hi_b_clear" /\ pc' # pc

\* what a step may do to the transitions applied and to the flags
StickyStep ==
    /\ AppliesA =>
          /\ latch.a_since >= 1
          /\ latch'.a_app = latch.a_app + 1
          /\ buttons'.index = NextIndex(buttons.index)
    /\ AppliesB =>
          /\ latch.b_since >= 1
          /\ latch'.b_app = latch.b_app + 1
          /\ player'.is_playing = ~player.is_playing
    /\ latch'.a_app # latch.a_app => AppliesA
    /\ latch'.b_app # latch.b_app => AppliesB
    /\ buttons'.index # buttons.index => AppliesA
    /\ ClearsA =>
          /\ latch.a_since >= 1
          /\ latch'.a_since = 0
          /\ ~buttons'.a_pressed
          /\ buttons'.index = NextIndex(cyc.index0)
    /\ ClearsB =>
          /\ latch.b_since >= 1
          /\ latch'.b_since = 0
          /\ ~buttons'.b_pressed
          /\ cyc.took_b
          /\ player'.is_playing = ~cyc.play_b

\* C22: the press flags are booleans that stay set, not counters.  In every
\* interleaving the transitions applied for a button never outnumber the
\* accepted invocations of its callback; a transition is applied only when a
\* press was accepted since the flag was last cleared; and the presses
\* accepted between two clearings of a flag, however many (one arriving
\* between the test and the clearing included), get the one transition of
\* the call that clears it.
C22_FlagsAreSticky ==
    /\ [](/\ latch.a_app <= latch.a_acc
          /\ latch.b_app <= latch.b_acc
          /\ buttons.a_pressed => latch.a_since >= 1
          /\ buttons.b_pressed => latch.b_since >= 1)
    /\ [][StickyStep]_vars

\* two presses of button A were accepted, the second between the test and
\* the clearing of its flag, and handle_input has cleared the flag having
\* applied one transition
C22_Witness ==
    /\ pc = "hi_b"
    /\ cyc.took_a
    /\ ~buttons.a_pressed
    /\ latch.a_acc = 2
    /\ latch.a_app = 1
    /\ latch.a_since = 0
    /\ last_call[BUTTON_A_PIN] = now
    /\ buttons.index = NextIndex(cyc.index0)


\* two presses of button A were accepted while one note sounded, and
\* handle_input has cleared the flag having applied one transition
SeveralPressesInOneNote ==
    /\ pc = "hi_b"
    /\ cyc.took_a
    /\ ~buttons.a_pressed
    /\ latch.a_acc = 2
    /\ latch.a_app = 1
    /\ latch.a_since = 0
    /\ emit.ended
    /\ emit.start <= last_call[BUTTON_A_PIN] - (DEBOUNCE_DELAY_MS * 1000 + 1)
    /\ last_call[BUTTON_A_PIN] <= emit.ended_at


\* the time of the last accepted trigger on a pin, the clock origin if the
\* pin never triggered
LastAccepted(p) == IF last_call[p] = -1 THEN 0 ELSE last_call[p]

\* C23: a pin's debounce timestamp is the time of the last accepted trigger
\* on the pin, 0 from boot until the first one, whatever register and remove
\* calls were made for the pin; so a dispatch on the pin, the first after a
\* registration included, is accepted only if more than the debounce window
\* has passed since the last accepted trigger on it, or since boot.
C23_TimestampBelongsToPin ==
    /\ \A p \in TableIdx : last_interrupt_time[p] = LastAccepted(p)
    /\ (last_op.op \in {"register", "remove"} /\ last_op.gpio < MAX_GPIO_PINS) =>
          last_interrupt_time[last_op.gpio] = last_op.lit_before
    /\ (last_op.op = "dispatch" /\ last_op.invoked = 1) =>
          /\ last_op.elapsed > DEBOUNCE_DELAY_MS * 1000
          /\ last_op.since_prev = -1 => last_op.elapsed = now
          /\ last_op.since_prev # -1 => last_op.elapsed = last_op.since_prev
    /\ (last_op.op = "dispatch" /\ last_op.slot # NULL /\ last_op.invoked = 0) =>
          /\ last_op.elapsed <= DEBOUNCE_DELAY_MS * 1000
          /\ last_op.elapsed = now - LastAccepted(last_op.gpio)

\* button A's pin triggered under a registration of btn_a_callback, was
\* registered anew with btn_b_callback, and the dispatch that followed, the
\* window not over, was dropped
C23_Witness ==
    /\ last_op.op = "dispatch"
    /\ last_op.gpio = BUTTON_A_PIN
    /\ last_op.slot = "btn_b_callback"
    /\ last_op.invoked = 0
    /\ last_call[BUTTON_A_PIN] > 0
    /\ last_call[BUTTON_B_PIN] = -1
    /\ buttons.a_pressed
    /\ ~buttons.b_pressed
    /\ now = last_call[BUTTON_A_PIN] + DEBOUNCE_DELAY_MS * 1000


\* what a step of the dispatch layer on pin last_op'.gpio leaves alone, and
\* what decides whether its dispatch is accepted
IndependentStep ==
    LET p == last_op'.gpio
    IN  /\ \A q \in TableIdx \ {p} :
              /\ callbacks'[q] = callbacks[q]
              /\ last_interrupt_time'[q] = last_interrupt_time[q]
        /\ (last_op'.op = "dispatch" /\ ValidPin(p) /\ callbacks[p] # NULL) =>
              (last_op'.invoked = 1 <=>
                  now - last_interrupt_time[p] > DEBOUNCE_DELAY_MS * 1000)
        /\ (last_op'.op = "dispatch" /\ last_op'.invoked = 1) =>
              /\ callbacks[p] = "btn_a_callback" =>
                    buttons' = [buttons EXCEPT !.a_pressed = TRUE]
              /\ callbacks[p] = "btn_b_callback" =>
                    buttons' = [buttons EXCEPT !.b_pressed = TRUE]
        /\ (last_op'.op \in {"register", "remove", "attach"}
               \/ last_op'.invoked = 0) => buttons' = buttons

\* C24: register, remove and dispatch on a pin leave the callback slot and
\* the timestamp of every other pin as they were; whether a dispatch is
\* accepted depends on its own pin's timestamp only, so a press accepted on
\* one button never makes the debounce drop a press on the other; and
\* btn_a_callback changes a_pressed only, btn_b_callback b_pressed only.
C24_PinsIndependent == [][last_op' # last_op => IndependentStep]_vars

\* a press on button B's pin has been accepted in the instant in which a
\* press on button A's pin was accepted before it
C24_Witness ==
    /\ last_op.op = "dispatch"
    /\ last_op.gpio = BUTTON_B_PIN
    /\ last_op.slot = "btn_b_callback"
    /\ last_op.invoked = 1
    /\ callbacks[BUTTON_A_PIN] = "btn_a_callback"
    /\ last_call[BUTTON_A_PIN] = now
    /\ last_interrupt_time[BUTTON_A_PIN] = now
    /\ last_interrupt_time[BUTTON_B_PIN] = now
    /\ buttons.a_pressed
    /\ buttons.b_pressed


\* C25: for every positive stored note frequency and every joystick sample
\* in 0..4095 the effective frequency handed to play_tone, the product
\* f * (0.5 + x/4095) converted to int, is at least 1, so play_tone is never
\* invoked with frequency 0.
C25_FrequencyAtLeastOne ==
    (fq.done /\ fq.f > 0) =>
        /\ NoteCommand(fq.f, fq.fm).tone
        /\ play_tone(fq.out).freq >= 1


(***************************************************************************)
(* Termination of playback, checked under SpecPlayback.                    *)
(***************************************************************************)
PlaybackLength == melodies[buttons.index + 1].length

\* every note of the selected melody has been emitted and the player has
\* stopped past the last one
PlaybackDone ==
    /\ ~player.is_playing
    /\ player.current_note = PlaybackLength
    /\ nemit = PlaybackLength
    /\ emit.ended
    /\ emit.note = PlaybackLength - 1
    /\ pwm.level = "zero"

\* an emission is that of the note whose index is the number of notes
\* emitted before it
EmitsInOrder ==
    nemit' # nemit =>
        /\ nemit' = nemit + 1
        /\ nemit < PlaybackLength
        /\ emit'.index = buttons.index
        /\ emit'.note = nemit
        /\ emit'.original = melodies[buttons.index + 1].melody[nemit + 1]
        /\ emit'.duration = melodies[buttons.index + 1].durations[nemit + 1]

\* C26: playback terminates on its own.  From Playing at note 0 of a melody
\* of length n, with no further press accepted and the loop running, the
\* player emits notes 0 .. n-1 in order, each once, and then is Paused with
\* current_note = n for good.
C26_PlaybackTerminates ==
    /\ [][EmitsInOrder]_vars
    /\ <>[]PlaybackDone

\* the two notes of the second melody have been emitted and the loop sleeps
\* with the player stopped past them
C26_Witness ==
    /\ PlaybackDone
    /\ buttons.index = 1
    /\ PlaybackLength = 2
    /\ pc = "sleep"
    /\ now > emit.ended_at


============================================================================
